---- MODULE Spec2Model ----
(***************************************************************************)
(* Model of src/util.rs of the regress crate: the debug-checked indexing   *)
(* trait DebugCheckIndex (iat / mat), the UTF-8 helpers (utf8_first_byte,  *)
(* is_utf8_continuation, utf8_w2 / utf8_w3 / utf8_w4) and the equal-range  *)
(* binary search SliceHelp::equal_range_by.                                *)
(*                                                                         *)
(* Four specifications share the variables below; each one drives one      *)
(* component and leaves the variables of the others at their initial       *)
(* values:                                                                 *)
(*   SpecER / FairSpecER  equal_range_by, one loop iteration per step      *)
(*   SpecCp               tests::utf8 generalised to every code point      *)
(*   SpecDec              the decoders on arbitrary bytes, both builds     *)
(*   SpecIdx              iat / mat under the four build configurations    *)
(***************************************************************************)
EXTENDS Integers, Sequences, FiniteSets, TLC

\* ------------------------------------------------------------------------
\* Bounds of the model
\* ------------------------------------------------------------------------
\* longest slice handed to equal_range_by
MaxLen == 6
\* elements and needles are drawn from 0..MaxVal
MaxVal == 2
\* longest Vec or slice indexed with iat / mat
MaxCont == 3
\* indices and range ends are drawn from 0..MaxIdx
MaxIdx == 4
\* trailing bytes of utf8_w3 / utf8_w4 are drawn, for each value of the two
\* high bits, with low six bits in 0..TailLow-1 or all ones
TailLow == 1

VARIABLES
    \* equal_range_by
    vals,       \* the slice `self`
    needle,     \* the key captured by the closure f
    pc,         \* position inside equal_range_by
    phase,      \* which of the two binary searches is running
    off,        \* start of the sub-slice being searched (0, then left)
    slen,       \* length of the sub-slice being searched
    size,       \* binary_search_by: size
    base,       \* binary_search_by: base
    res,        \* result of the running binary_search_by: <<"Ok"|"Err", i>>
    left,       \* equal_range_by: left
    right,      \* equal_range_by: right
    oob,        \* TRUE once an element outside the slice was read
    probes,     \* number of comparator calls made so far
    \* UTF-8 helpers
    debug,      \* cfg!(debug_assertions) of the build
    upc,        \* which UTF-8 operation ran last
    cp,         \* the code point under test
    bytes,      \* the bytes handed to the decoder
    first,      \* what utf8_first_byte did: <<"Val", b>> or <<"Panic", 0>>
    dec,        \* what the decoder did: <<"Val", n>> or <<"Panic", 0>>
    \* DebugCheckIndex
    prohibit,   \* cfg!(feature = "prohibit-unsafe") of the build
    cont,       \* the contents of the Vec or slice
    ipc,        \* "idle", or the method that ran: "iat" / "mat"
    idx,        \* the index: <<"at", i>> or <<"range", start, end>>
    unchecked,  \* TRUE once get_unchecked / get_unchecked_mut was executed
    out         \* <<"Ref", start, len>>, <<"Panic", 0, 0>>, <<"Fault", 0, 0>>

erVars == <<vals, needle, pc, phase, off, slen, size, base, res, left, right,
            oob, probes>>

u8Vars == <<debug, upc, cp, bytes, first, dec>>

ixVars == <<prohibit, cont, ipc, idx, unchecked, out>>

vars == <<erVars, u8Vars, ixVars>>

\* ------------------------------------------------------------------------
\* std::cmp::Ordering
\* ------------------------------------------------------------------------
Ordering == {"Less", "Equal", "Greater"}

\* Ord::cmp on integers
cmp(a, b) == IF a < b THEN "Less" ELSE IF a = b THEN "Equal" ELSE "Greater"

\* Ordering::then: self unless self is Equal, otherwise other
then(o, other) == IF o = "Equal" THEN other ELSE o

\* the caller's comparator, |v| v.cmp(&needle)
f(v) == cmp(v, needle)

\* ------------------------------------------------------------------------
\* equal_range_by
\* ------------------------------------------------------------------------
\* the first search perturbed like the second
LeftCmp_Less(v) == then(f(v), "Less")

\* first search: |v| f(v).then(Ordering::Greater)
LeftCmp(v) == then(f(v), "Greater")

\* the second search with the comparator left unperturbed
RightCmp_Plain(v) == f(v)

\* second search: |v| f(v).then(Ordering::Less)
RightCmp(v) == then(f(v), "Less")

\* the comparator of the running search
SearchCmp(v) == IF phase = "left" THEN LeftCmp(v) ELSE RightCmp(v)

\* The two searches are calls of the standard library's
\* slice::binary_search_by; its loop (base / size halving, one comparison
\* after the loop) is modelled step by step by Mid, Shrink, NextBase, Final
\* and the actions BsEmpty, BsLoop, BsFinal.

\* what the comparator answers for element i of the sub-slice; reading
\* outside the sub-slice is undefined behaviour, so any answer is possible
Probe(i) ==
    IF i >= 0 /\ i < slen /\ off + i < Len(vals)
    THEN {SearchCmp(vals[off + i + 1])}
    ELSE Ordering

InBounds(i) == i >= 0 /\ i < slen /\ off + i < Len(vals)

\* binary_search_by: let half = size / 2; let mid = base + half
Mid(b, s) == b + (s \div 2)

\* binary_search_by: size -= half
Shrink(s) == s - (s \div 2)

\* binary_search_by: base = if cmp == Greater { base } else { mid }
NextBase(c, b, mid) == IF c = "Greater" THEN b ELSE mid

\* binary_search_by: the result built from the last comparison
Final(c, b) ==
    IF c = "Equal" THEN <<"Ok", b>>
    ELSE <<"Err", b + (IF c = "Less" THEN 1 ELSE 0)>>

NoRes == <<"None", 0>>

\* equal_range_by is entered: the first search runs over the whole slice
Call ==
    /\ pc = "call"
    /\ pc' = "search"
    /\ phase' = "left"
    /\ off' = 0
    /\ slen' = Len(vals)
    /\ size' = Len(vals)
    /\ base' = 0
    /\ UNCHANGED <<vals, needle, res, left, right, oob, probes>>
    /\ UNCHANGED <<u8Vars, ixVars>>

\* binary_search_by: if size == 0 { return Err(0) }
BsEmpty ==
    /\ pc = "search"
    /\ slen = 0
    /\ res' = <<"Err", 0>>
    /\ pc' = "unwrap"
    /\ UNCHANGED <<vals, needle, phase, off, slen, size, base, left, right,
                   oob, probes>>
    /\ UNCHANGED <<u8Vars, ixVars>>

\* binary_search_by: one iteration of `while size > 1`
BsLoop ==
    /\ pc = "search"
    /\ slen # 0
    /\ size > 1
    /\ LET mid == Mid(base, size) IN
       \E c \in Probe(mid) :
          /\ base' = NextBase(c, base, mid)
          /\ oob' = (oob \/ ~InBounds(mid))
    /\ size' = Shrink(size)
    /\ probes' = probes + 1
    /\ UNCHANGED <<vals, needle, pc, phase, off, slen, res, left, right>>
    /\ UNCHANGED <<u8Vars, ixVars>>

\* binary_search_by: the comparison after the loop and the result
BsFinal ==
    /\ pc = "search"
    /\ slen # 0
    /\ size <= 1
    /\ \E c \in Probe(base) :
          /\ res' = Final(c, base)
          /\ oob' = (oob \/ ~InBounds(base))
    /\ probes' = probes + 1
    /\ pc' = "unwrap"
    /\ UNCHANGED <<vals, needle, phase, off, slen, size, base, left, right>>
    /\ UNCHANGED <<u8Vars, ixVars>>

\* equal_range_by: `.unwrap_err()` of the first search, then `self[left..]`
\* and the start of the second search
UnwrapLeft ==
    /\ pc = "unwrap"
    /\ phase = "left"
    /\ IF res[1] # "Err" \/ res[2] > Len(vals)
       THEN /\ pc' = "panic"
            /\ UNCHANGED <<phase, off, slen, size, base, left>>
       ELSE /\ left' = res[2]
            /\ pc' = "search"
            /\ phase' = "right"
            /\ off' = res[2]
            /\ slen' = Len(vals) - res[2]
            /\ size' = Len(vals) - res[2]
            /\ base' = 0
    /\ res' = NoRes
    /\ UNCHANGED <<vals, needle, right, oob, probes>>
    /\ UNCHANGED <<u8Vars, ixVars>>

\* right taken relative to the sub-slice, `+ left` forgotten
RightOf_NoLeft(r, l) == r

\* equal_range_by: right = second search's `.unwrap_err() + left`
RightOf(r, l) == r + l

\* equal_range_by: `.unwrap_err() + left` and the returned left..right
UnwrapRight ==
    /\ pc = "unwrap"
    /\ phase = "right"
    /\ IF res[1] # "Err"
       THEN /\ pc' = "panic"
            /\ UNCHANGED right
       ELSE /\ right' = RightOf(res[2], left)
            /\ pc' = "done"
    /\ res' = NoRes
    /\ UNCHANGED <<vals, needle, phase, off, slen, size, base, left, oob,
                   probes>>
    /\ UNCHANGED <<u8Vars, ixVars>>

\* iat and mat are not called
IxIdle ==
    /\ prohibit = FALSE
    /\ cont = <<>>
    /\ ipc = "idle"
    /\ idx = <<"at", 0>>
    /\ unchecked = FALSE
    /\ out = <<"None", 0, 0>>

\* the UTF-8 helpers are not called
U8Idle ==
    /\ debug = FALSE
    /\ upc = "idle"
    /\ cp = 0
    /\ bytes = <<>>
    /\ first = <<"None", 0>>
    /\ dec = <<"None", 0>>

RECURSIVE SeqsUpTo(_, _)
SeqsUpTo(S, n) ==
    IF n = 0 THEN {<<>>}
    ELSE LET shorter == SeqsUpTo(S, n - 1) IN
         shorter \cup {Append(s, x) : s \in {t \in shorter : Len(t) = n - 1},
                                      x \in S}

InitER ==
    /\ vals \in SeqsUpTo(0..MaxVal, MaxLen)
    /\ needle \in 0..MaxVal
    /\ pc = "call"
    /\ phase = "left"
    /\ off = 0
    /\ slen = 0
    /\ size = 0
    /\ base = 0
    /\ res = NoRes
    /\ left = 0
    /\ right = 0
    /\ oob = FALSE
    /\ probes = 0
    /\ U8Idle
    /\ IxIdle

NextER == Call \/ BsEmpty \/ BsLoop \/ BsFinal \/ UnwrapLeft \/ UnwrapRight

SpecER == InitER /\ [][NextER]_vars

\* every step of equal_range_by is a step of straight-line code: once
\* enabled it is taken
FairSpecER == SpecER /\ WF_vars(NextER)

\* ------------------------------------------------------------------------
\* tests::ranges: the reference linear scan
\* ------------------------------------------------------------------------
RECURSIVE ScanWhile(_, _)
\* advance i while i < len and the element at i compares as `want`
ScanWhile(i, want) ==
    IF i < Len(vals) /\ f(vals[i + 1]) = want
    THEN ScanWhile(i + 1, want)
    ELSE i

slow_er == LET l == ScanWhile(0, "Less") IN <<l, ScanWhile(l, "Equal")>>

\* self is sorted according to f: Less*, Equal*, Greater*
Rank(o) == IF o = "Less" THEN 0 ELSE IF o = "Equal" THEN 1 ELSE 2
SortedByF ==
    \A i, j \in 1..Len(vals) : i < j => Rank(f(vals[i])) <= Rank(f(vals[j]))

\* ------------------------------------------------------------------------
\* Properties of equal_range_by
\* ------------------------------------------------------------------------
Returned == pc = "done"
HasEqual == \E i \in 1..Len(vals) : f(vals[i]) = "Equal"
CountLess == Cardinality({i \in 1..Len(vals) : f(vals[i]) = "Less"})

\* C1: on a slice sorted according to f, equal_range_by returns the range
\* left..right whose elements all compare Equal, with every element before
\* left comparing Less and every element from right on comparing Greater,
\* and this is the range the linear scan of tests::ranges returns.
C1_EqualRange ==
    (Returned /\ SortedByF) =>
        /\ <<left, right>> = slow_er
        /\ \A i \in 1..Len(vals) :
              /\ (i - 1 < left) => f(vals[i]) = "Less"
              /\ (left <= i - 1 /\ i - 1 < right) => f(vals[i]) = "Equal"
              /\ (i - 1 >= right) => f(vals[i]) = "Greater"

\* a key present several times, strictly inside the slice
C1_Witness ==
    /\ Returned /\ SortedByF
    /\ right - left >= 2
    /\ left > 0
    /\ right < Len(vals)

\* C2: on a sorted slice with no Equal element the returned range is empty
\* and sits at the insertion point: left = right = number of Less elements
\* (0 when all are Greater or the slice is empty, len when all are Less).
C2_EmptyAtInsertion ==
    (Returned /\ SortedByF /\ ~HasEqual) =>
        /\ left = right
        /\ left = CountLess
        /\ (\A i \in 1..Len(vals) : f(vals[i]) = "Greater") => left = 0
        /\ (\A i \in 1..Len(vals) : f(vals[i]) = "Less") => left = Len(vals)

\* an absent key whose insertion point is strictly inside the slice
C2_Witness ==
    /\ Returned /\ SortedByF /\ ~HasEqual
    /\ left > 0
    /\ left < Len(vals)

\* what must hold at every point of a call, sorted slice or not
ERSafe ==
    /\ ~oob
    /\ pc # "panic"
    /\ Returned => (0 <= left /\ left <= right /\ right <= Len(vals))

\* C3: on every slice, sorted or not, equal_range_by never reads outside
\* the slice, never fails an unwrap_err, returns 0 <= left <= right <= len,
\* and terminates.
C3_SafeAndTerminates == []ERSafe /\ <>Returned

\* a call on a slice that is not sorted according to f has returned
C3_Witness == Returned /\ ~SortedByF /\ Len(vals) >= 3

\* ------------------------------------------------------------------------
\* Fixed-width integer arithmetic
\* ------------------------------------------------------------------------
RECURSIVE BitAnd(_, _)
\* a & b
BitAnd(a, b) ==
    IF a = 0 \/ b = 0 THEN 0
    ELSE (IF a % 2 = 1 /\ b % 2 = 1 THEN 1 ELSE 0)
         + 2 * BitAnd(a \div 2, b \div 2)

RECURSIVE BitOr(_, _)
\* a | b
BitOr(a, b) ==
    IF a = 0 THEN b
    ELSE IF b = 0 THEN a
    ELSE (IF a % 2 = 1 \/ b % 2 = 1 THEN 1 ELSE 0)
         + 2 * BitOr(a \div 2, b \div 2)

\* a >> n
Shr(a, n) == a \div (2 ^ n)

\* a << n on u32: the bits shifted past bit 31 are dropped, i.e. only the
\* low 32 - n bits of a survive (for n <= 1 those are all the bits of the
\* operands that occur here, which are widened bytes)
Shl32(a, n) == (IF n <= 1 THEN a ELSE a % (2 ^ (32 - n))) * (2 ^ n)

\* a << n on u8
Shl8(a, n) == (a * (2 ^ n)) % 256

\* `x as u8` of a u32
AsU8(x) == x % 256

Byte == 0..255

\* ------------------------------------------------------------------------
\* UTF-8 helpers
\* ------------------------------------------------------------------------
\* crate::codepointset::CODE_POINT_MAX, the largest Unicode scalar value
\* (tests::utf8 unwraps std::char::from_u32(CODE_POINT_MAX))
CODE_POINT_MAX == 1114111

\* Number of significant bits in a utf8 continuation byte.
UTF8_CONT_SIGBITS == 6

\* the two-byte band with its upper limit off by one
utf8_first_byte_OffByOne(c) ==
    IF c < 128 THEN AsU8(c)
    ELSE IF c <= 2048 THEN BitOr(AsU8(BitAnd(Shr(c, 6), 31)), 192)
    ELSE IF c < 65536 THEN BitOr(AsU8(BitAnd(Shr(c, 12), 15)), 224)
    ELSE BitOr(AsU8(BitAnd(Shr(c, 18), 7)), 240)

\* the three-byte band tagged 0b1010_0000 instead of 0b1110_0000
utf8_first_byte_BadTag(c) ==
    IF c < 128 THEN AsU8(c)
    ELSE IF c < 2048 THEN BitOr(AsU8(BitAnd(Shr(c, 6), 31)), 192)
    ELSE IF c < 65536 THEN BitOr(AsU8(BitAnd(Shr(c, 12), 15)), 160)
    ELSE BitOr(AsU8(BitAnd(Shr(c, 18), 7)), 240)

\* utf8_first_byte, the value computed after the debug assertion
utf8_first_byte(c) ==
    IF c < 128 THEN AsU8(c)
    ELSE IF c < 2048 THEN BitOr(AsU8(BitAnd(Shr(c, 6), 31)), 192)
    ELSE IF c < 65536 THEN BitOr(AsU8(BitAnd(Shr(c, 12), 15)), 224)
    ELSE BitOr(AsU8(BitAnd(Shr(c, 18), 7)), 240)

Val(n) == <<"Val", n>>
Panic == <<"Panic", 0>>

\* a call of utf8_first_byte in the given build
FirstByteCall(dbg, c) ==
    IF dbg /\ ~(c <= CODE_POINT_MAX) THEN Panic ELSE Val(utf8_first_byte(c))

\* mask_shift that shifts one bit too far
mask_shift_TooFar(b, mask, shift) ==
    LET masked == BitAnd(b, (Shl8(1, mask) - 1) % 256) IN
    Shl32(masked, shift + 1)

\* mask_shift: keep the low `mask` bits of b, then shift left by `shift`
mask_shift(b, mask, shift) ==
    LET masked == BitAnd(b, (Shl8(1, mask) - 1) % 256) IN
    Shl32(masked, shift)

\* only the top bit tested
is_utf8_continuation_TopBit(b) == BitAnd(b, 128) = 128

\* is_utf8_continuation
is_utf8_continuation(b) == BitAnd(b, 192) = 128

\* utf8_w2: debug_assert!(!is_utf8_continuation(b0) && is_utf8_continuation(b1))
W2Assert1(b0, b1) == ~is_utf8_continuation(b0) /\ is_utf8_continuation(b1)

\* the prefix assertion of utf8_w2 left out
W2Assert2_Missing(b0) == TRUE

\* utf8_w2: debug_assert!(b0 >> 5 == 0b110)
W2Assert2(b0) == Shr(b0, 5) = 6

\* utf8_w2: the returned expression
W2Value(b0, b1) ==
    BitOr(mask_shift(b0, 5, UTF8_CONT_SIGBITS),
          mask_shift(b1, UTF8_CONT_SIGBITS, 0))

\* utf8_w2 in the given build
utf8_w2(dbg, b0, b1) ==
    IF dbg /\ ~(W2Assert1(b0, b1) /\ W2Assert2(b0)) THEN Panic
    ELSE Val(W2Value(b0, b1))

\* utf8_w3: the first debug_assert!
W3Assert1(b0, b1, b2) ==
    ~is_utf8_continuation(b0) /\ is_utf8_continuation(b1)
        /\ is_utf8_continuation(b2)

\* utf8_w3: debug_assert!(b0 >> 4 == 0b1110)
W3Assert2(b0) == Shr(b0, 4) = 14

\* utf8_w3 with the shifts of b0 and b1 exchanged
W3Value_Swapped(b0, b1, b2) ==
    BitOr(BitOr(mask_shift(b0, 4, UTF8_CONT_SIGBITS),
                mask_shift(b1, UTF8_CONT_SIGBITS, 2 * UTF8_CONT_SIGBITS)),
          mask_shift(b2, UTF8_CONT_SIGBITS, 0))

\* utf8_w3: the returned expression
W3Value(b0, b1, b2) ==
    BitOr(BitOr(mask_shift(b0, 4, 2 * UTF8_CONT_SIGBITS),
                mask_shift(b1, UTF8_CONT_SIGBITS, UTF8_CONT_SIGBITS)),
          mask_shift(b2, UTF8_CONT_SIGBITS, 0))

\* utf8_w3 in the given build
utf8_w3(dbg, b0, b1, b2) ==
    IF dbg /\ ~(W3Assert1(b0, b1, b2) /\ W3Assert2(b0)) THEN Panic
    ELSE Val(W3Value(b0, b1, b2))

\* utf8_w4: the first debug_assert!
W4Assert1(b0, b1, b2, b3) ==
    ~is_utf8_continuation(b0) /\ is_utf8_continuation(b1)
        /\ is_utf8_continuation(b2) /\ is_utf8_continuation(b3)

\* utf8_w4: debug_assert!(b0 >> 3 == 0b11110)
W4Assert2(b0) == Shr(b0, 3) = 30

\* utf8_w4: the returned expression
W4Value(b0, b1, b2, b3) ==
    BitOr(BitOr(BitOr(mask_shift(b0, 3, 3 * UTF8_CONT_SIGBITS),
                      mask_shift(b1, UTF8_CONT_SIGBITS, 2 * UTF8_CONT_SIGBITS)),
                mask_shift(b2, UTF8_CONT_SIGBITS, UTF8_CONT_SIGBITS)),
          mask_shift(b3, UTF8_CONT_SIGBITS, 0))

\* utf8_w4 in the given build
utf8_w4(dbg, b0, b1, b2, b3) ==
    IF dbg /\ ~(W4Assert1(b0, b1, b2, b3) /\ W4Assert2(b0)) THEN Panic
    ELSE Val(W4Value(b0, b1, b2, b3))

\* ------------------------------------------------------------------------
\* tests::utf8, for every code point
\* ------------------------------------------------------------------------
\* the reference encoder of the test, char::encode_utf8, defined by the
\* arithmetic of the UTF-8 encoding (surrogates are encoded like their
\* neighbours: utf8_first_byte takes a u32 so as not to fail on them)
encode_utf8(c) ==
    IF c < 128 THEN <<c>>
    ELSE IF c < 2048 THEN <<192 + (c \div 64), 128 + (c % 64)>>
    ELSE IF c < 65536
         THEN <<224 + (c \div 4096), 128 + ((c \div 64) % 64), 128 + (c % 64)>>
    ELSE <<240 + (c \div 262144), 128 + ((c \div 4096) % 64),
           128 + ((c \div 64) % 64), 128 + (c % 64)>>

\* the `match bytes.len()` of the test: the decoder chosen by byte length
DecodeMatching(dbg, bs) ==
    CASE Len(bs) = 1 -> Val(bs[1])
      [] Len(bs) = 2 -> utf8_w2(dbg, bs[1], bs[2])
      [] Len(bs) = 3 -> utf8_w3(dbg, bs[1], bs[2], bs[3])
      [] Len(bs) = 4 -> utf8_w4(dbg, bs[1], bs[2], bs[3], bs[4])

\* one iteration of the loop of tests::utf8, for the code point c
Utf8Test ==
    /\ upc = "idle"
    /\ bytes' = encode_utf8(cp)
    /\ first' = FirstByteCall(debug, cp)
    /\ dec' = DecodeMatching(debug, encode_utf8(cp))
    /\ upc' = "tested"
    /\ UNCHANGED <<debug, cp>>
    /\ UNCHANGED <<erVars, ixVars>>

\* equal_range_by is not called
ERIdle ==
    /\ vals = <<>>
    /\ needle = 0
    /\ pc = "idle"
    /\ phase = "left"
    /\ off = 0
    /\ slen = 0
    /\ size = 0
    /\ base = 0
    /\ res = NoRes
    /\ left = 0
    /\ right = 0
    /\ oob = FALSE
    /\ probes = 0

\* tests are built with debug assertions
InitCp ==
    /\ ERIdle
    /\ IxIdle
    /\ debug = TRUE
    /\ upc = "idle"
    /\ cp \in 0..CODE_POINT_MAX
    /\ bytes = <<>>
    /\ first = <<"None", 0>>
    /\ dec = <<"None", 0>>

NextCp == Utf8Test

SpecCp == InitCp /\ [][NextCp]_vars

\* ------------------------------------------------------------------------
\* The decoders on arbitrary bytes, in debug and release builds
\* ------------------------------------------------------------------------
TailBytes == {h * 64 + l : h \in 0..3, l \in (0..(TailLow - 1)) \cup {63}}

\* a call utf8_w2(b0, b1)
CallW2 ==
    /\ upc = "idle"
    /\ \E b0 \in Byte, b1 \in Byte :
        /\ bytes' = <<b0, b1>>
        /\ dec' = utf8_w2(debug, b0, b1)
    /\ upc' = "w2"
    /\ UNCHANGED <<debug, cp, first>>
    /\ UNCHANGED <<erVars, ixVars>>

\* a call utf8_w3(b0, b1, b2)
CallW3 ==
    /\ upc = "idle"
    /\ \E b0 \in Byte, b1 \in TailBytes, b2 \in TailBytes :
        /\ bytes' = <<b0, b1, b2>>
        /\ dec' = utf8_w3(debug, b0, b1, b2)
    /\ upc' = "w3"
    /\ UNCHANGED <<debug, cp, first>>
    /\ UNCHANGED <<erVars, ixVars>>

\* a call utf8_w4(b0, b1, b2, b3)
CallW4 ==
    /\ upc = "idle"
    /\ \E b0 \in Byte, b1 \in TailBytes, b2 \in TailBytes, b3 \in TailBytes :
        /\ bytes' = <<b0, b1, b2, b3>>
        /\ dec' = utf8_w4(debug, b0, b1, b2, b3)
    /\ upc' = "w4"
    /\ UNCHANGED <<debug, cp, first>>
    /\ UNCHANGED <<erVars, ixVars>>

InitDec ==
    /\ ERIdle
    /\ IxIdle
    /\ debug \in BOOLEAN
    /\ upc = "idle"
    /\ cp = 0
    /\ bytes = <<>>
    /\ first = <<"None", 0>>
    /\ dec = <<"None", 0>>

NextDec == CallW2 \/ CallW3 \/ CallW4

SpecDec == InitDec /\ [][NextDec]_vars

\* ------------------------------------------------------------------------
\* Properties of the UTF-8 helpers
\* ------------------------------------------------------------------------
Tested == upc = "tested"
Decoded == upc \in {"w2", "w3", "w4"}

\* C4: round trip: decoding the reference encoding of a code point with
\* the decoder matching its length gives the code point back.
C4_RoundTrip == Tested => dec = Val(cp)

\* the largest code point, a four-byte sequence, has been decoded
C4_Witness == Tested /\ cp = CODE_POINT_MAX /\ Len(bytes) = 4 /\ dec = Val(cp)

\* the leading byte of the encoding of c, band by band
LeadByte(c) ==
    IF c < 128 THEN c
    ELSE IF c < 2048 THEN 192 + ((c \div 64) % 32)
    ELSE IF c < 65536 THEN 224 + ((c \div 4096) % 16)
    ELSE 240 + ((c \div 262144) % 8)

\* C5: utf8_first_byte(c) is the first byte of the reference encoding of
\* c: c itself below 0x80, 110xxxxx with bits 6-10 below 0x800, 1110xxxx
\* with bits 12-15 below 0x10000, 11110xxx with bits 18-20 otherwise.
C5_FirstByte ==
    Tested => (first = Val(bytes[1]) /\ first = Val(LeadByte(cp)))

\* a band boundary: 0x800 is the first three-byte code point
C5_Witness == Tested /\ cp = 2048 /\ first = Val(224)

\* C6: is_utf8_continuation(b) is true exactly for b in 0x80..0xBF.
C6_Continuation ==
    Decoded =>
        \A i \in 1..Len(bytes) :
            is_utf8_continuation(bytes[i]) <=>
                (128 <= bytes[i] /\ bytes[i] <= 191)

\* the last continuation byte next to the first non-continuation byte
C6_Witness == upc = "w2" /\ bytes = <<192, 191>>

\* the documented precondition of the decoder that ran, by byte ranges
IsCont(b) == 128 <= b /\ b <= 191
WellFormed ==
    /\ \A i \in 2..Len(bytes) : IsCont(bytes[i])
    /\ CASE upc = "w2" -> 192 <= bytes[1] /\ bytes[1] <= 223
         [] upc = "w3" -> 224 <= bytes[1] /\ bytes[1] <= 239
         [] upc = "w4" -> 240 <= bytes[1] /\ bytes[1] <= 247
         [] OTHER -> FALSE

\* the mask-and-shift value of the bytes handed to the decoder
Reassembled ==
    CASE upc = "w2" -> (bytes[1] % 32) * 64 + (bytes[2] % 64)
      [] upc = "w3" -> (bytes[1] % 16) * 4096 + (bytes[2] % 64) * 64
                        + (bytes[3] % 64)
      [] upc = "w4" -> (bytes[1] % 8) * 262144 + (bytes[2] % 64) * 4096
                        + (bytes[3] % 64) * 64 + (bytes[4] % 64)
      [] OTHER -> 0

\* C8: malformed input is detected only by the debug assertions: a debug
\* build fails on every call that violates the precondition, a release
\* build returns the mask-and-shift value for every combination of bytes.
C8_DebugOnly ==
    Decoded =>
        /\ (debug /\ ~WellFormed) => dec = Panic
        /\ ~debug => dec = Val(Reassembled)

\* a debug build rejected a sequence whose only flaw is the leading byte
C8_Witness ==
    /\ upc = "w3" /\ debug /\ dec = Panic
    /\ bytes[1] = 240 /\ IsCont(bytes[2]) /\ IsCont(bytes[3])

\* C9 as stated: every decoder returns a value in [0, CODE_POINT_MAX] on
\* bytes that satisfy its precondition.
C9_AsStated ==
    (Decoded /\ WellFormed) => (dec[1] = "Val" /\ dec[2] <= CODE_POINT_MAX)

\* C9: on bytes that satisfy its precondition utf8_w2 returns a value in
\* [0, 0x7FF] and utf8_w3 a value in [0, 0xFFFF], both code points;
\* utf8_w4 returns a value in [0, 0x1FFFFF], which is a code point exactly
\* when b0 < 0xF4, or b0 = 0xF4 and b1 < 0x90.
C9_Range ==
    (Decoded /\ WellFormed) =>
        /\ dec[1] = "Val"
        /\ dec[2] >= 0
        /\ upc = "w2" => dec[2] <= 2047
        /\ upc = "w3" => dec[2] <= 65535
        /\ upc = "w4" =>
            /\ dec[2] <= 2097151
            /\ (dec[2] <= CODE_POINT_MAX) <=>
                   (bytes[1] < 244 \/ (bytes[1] = 244 /\ bytes[2] < 144))

\* utf8_w4 returned the largest value it can on well-formed bytes
C9_Witness ==
    /\ upc = "w4" /\ WellFormed
    /\ bytes = <<247, 191, 191, 191>>
    /\ dec = Val(2097151)

\* C10: utf8_first_byte(c) is never a continuation byte and passes the
\* leading-byte debug assertions of the decoder for the length band of c.
C10_LeadingByteOk ==
    Tested =>
        /\ first[1] = "Val"
        /\ ~IsCont(first[2])
        /\ Len(bytes) = 2 =>
              (first[2] \div 32 = 6 /\ W2Assert1(first[2], bytes[2])
                  /\ W2Assert2(first[2]))
        /\ Len(bytes) = 3 =>
              (first[2] \div 16 = 14
                  /\ W3Assert1(first[2], bytes[2], bytes[3])
                  /\ W3Assert2(first[2]))
        /\ Len(bytes) = 4 =>
              (first[2] \div 8 = 30
                  /\ W4Assert1(first[2], bytes[2], bytes[3], bytes[4])
                  /\ W4Assert2(first[2]))

\* the first two-byte code point: its leading byte is 0xC2
C10_Witness == Tested /\ cp = 128 /\ first = Val(194) /\ Len(bytes) = 2

\* ------------------------------------------------------------------------
\* DebugCheckIndex: iat and mat on Vec<T> and [T]
\* ------------------------------------------------------------------------
Ref(start, len) == <<"Ref", start, len>>
IdxPanic == <<"Panic", 0, 0>>
Fault == <<"Fault", 0, 0>>

\* self.get(idx).is_some() for the two kinds of SliceIndex: usize and Range
InRange(ix, n) ==
    IF ix[1] = "at" THEN ix[2] < n
    ELSE ix[2] <= ix[3] /\ ix[3] <= n

\* the element(s) a valid index designates
Place(ix) == IF ix[1] = "at" THEN Ref(ix[2], 1) ELSE Ref(ix[2], ix[3] - ix[2])

\* the debug assertion left out
DebugCheck_Missing(dbg, ix, n) == TRUE

\* debug_assert!(self.get(idx.clone()).is_some(), "Index out of bounds")
DebugCheck(dbg, ix, n) == dbg => InRange(ix, n)

\* self.index(idx) / self.index_mut(idx): safe indexing
Index(ix, n) == IF InRange(ix, n) THEN {Place(ix)} ELSE {IdxPanic}

\* self.get_unchecked(idx) / self.get_unchecked_mut(idx): out of range it is
\* undefined behaviour: a reference to anything, or a fault
GetUnchecked(ix, n) ==
    IF InRange(ix, n) THEN {Place(ix)}
    ELSE {Fault} \cup {Ref(a, l) : a \in 0..MaxIdx, l \in 0..MaxIdx}

\* the body of iat and of mat: the possible outcomes
At(dbg, proh, ix, n) ==
    IF ~DebugCheck(dbg, ix, n) THEN {IdxPanic}
    ELSE IF proh THEN Index(ix, n)
    ELSE GetUnchecked(ix, n)

\* whether the body reaches the unsafe block
ReachesUnchecked(dbg, proh, ix, n) == DebugCheck(dbg, ix, n) /\ ~proh

Indices ==
    {<<"at", i>> : i \in 0..MaxIdx}
        \cup {<<"range", a, b>> : a \in 0..MaxIdx, b \in 0..MaxIdx}

\* iat(&self, idx)
iat ==
    /\ ipc = "idle"
    /\ \E ix \in Indices :
        /\ idx' = ix
        /\ out' \in At(debug, prohibit, ix, Len(cont))
        /\ unchecked' = ReachesUnchecked(debug, prohibit, ix, Len(cont))
    /\ ipc' = "iat"
    /\ UNCHANGED <<prohibit, cont>>
    /\ UNCHANGED <<erVars, u8Vars>>

\* mat(&mut self, idx)
mat ==
    /\ ipc = "idle"
    /\ \E ix \in Indices :
        /\ idx' = ix
        /\ out' \in At(debug, prohibit, ix, Len(cont))
        /\ unchecked' = ReachesUnchecked(debug, prohibit, ix, Len(cont))
    /\ ipc' = "mat"
    /\ UNCHANGED <<prohibit, cont>>
    /\ UNCHANGED <<erVars, u8Vars>>

InitIdx ==
    /\ ERIdle
    /\ debug \in BOOLEAN
    /\ upc = "idle"
    /\ cp = 0
    /\ bytes = <<>>
    /\ first = <<"None", 0>>
    /\ dec = <<"None", 0>>
    /\ prohibit \in BOOLEAN
    /\ cont \in SeqsUpTo(0..1, MaxCont)
    /\ ipc = "idle"
    /\ idx = <<"at", 0>>
    /\ unchecked = FALSE
    /\ out = <<"None", 0, 0>>

NextIdx == iat \/ mat

SpecIdx == InitIdx /\ [][NextIdx]_vars

\* ------------------------------------------------------------------------
\* Properties of iat and mat
\* ------------------------------------------------------------------------
Indexed == ipc \in {"iat", "mat"}
CheckActive == prohibit \/ debug

\* the indices a reference covers, and the indices idx asks for
Covered == {i \in 0..(2 * MaxIdx) : out[2] <= i /\ i < out[2] + out[3]}
Asked ==
    IF idx[1] = "at" THEN {idx[2]}
    ELSE {i \in 0..MaxIdx : idx[2] <= i /\ i < idx[3]}
AskedInside ==
    IF idx[1] = "at" THEN idx[2] < Len(cont)
    ELSE idx[2] <= idx[3] /\ idx[3] <= Len(cont)

\* what holds after a call made with a bounds check active
CheckedOutcome ==
    (Indexed /\ CheckActive) =>
        IF AskedInside
        THEN /\ out[1] = "Ref"
             /\ Covered = Asked
             /\ out[2] = idx[2]
             /\ out \in Index(idx, Len(cont))
        ELSE /\ out = IdxPanic
             /\ ~unchecked

\* C7: with a bounds check active (prohibit-unsafe, or a debug build), iat
\* and mat behave as safe indexing for indices and ranges: inside the
\* container they return the reference direct indexing returns and leave
\* the contents alone; outside they fail without reaching the unchecked
\* access.
C7_CheckedIndexing == []CheckedOutcome /\ [][cont' = cont]_vars

\* a one-past-the-end index was rejected by the debug assertion alone
C7_Witness ==
    /\ Indexed /\ debug /\ ~prohibit
    /\ Len(cont) = 2 /\ idx = <<"at", 2>>
    /\ out = IdxPanic /\ ~unchecked

====
